---- MODULE Spec2Model ----
\* Virtual-DOM Element (html5/runtime/vdom/element.js): the two child orderings
\* of an Element (children, pureChildren), the parent and sibling links of its
\* child nodes, the document node table and the commands sent to the listener.
EXTENDS Integers, Sequences, FiniteSets, TLC

\* ---------------------------------------------------------------- bounds
\* The child nodes handed to the calls.
NumKids == 3
\* The calls of one behaviour.
MaxCalls == 4

\* ---------------------------------------------------------------- nodes
\* nodeType of an Element (element.js: this.nodeType = 1).
ELEMENT == 1
\* A falsy reference: an unset parentNode / sibling link, `undefined` out of a list.
Null == 0
\* A falsy docId.
NoDoc == ""
\* The id of the one document of the model.
TheDoc == "doc"

\* The two Elements the calls are made on, by nodeId.
P == 1
Q == 2
Parents == {P, Q}
\* The child nodes, by nodeId: Elements and other nodes in turn.
Kids == (Q + 1) .. (Q + NumKids)
ElementKids == {n \in Kids : n % 2 = 1}
OtherKids == Kids \ ElementKids
Nodes == Parents \cup Kids

\* Element constructor: nodeType is 1 for Elements, and something else otherwise.
nodeType(n) == IF n \in Parents \cup ElementKids THEN ELEMENT ELSE ELEMENT + 2
\* Element constructor: ref is the nodeId.
ref(n) == n

\* `undefined`: an absent argument, the value of an absent key.
NoArg == "undefined"
\* A map without keys: {}
EmptyMap == [k \in {} |-> NoArg]

\* The keys, values and `silent` arguments given to setAttr, setStyle and
\* setClassStyle, and the event types and handlers given to addEvent.
Keys == {"color", "width"}
Values == {"red", "blue"}
Silents == {"undefined", "false", "zero", "true"}
EventTypes == {"click", "toString"}
\* The property names every object inherits from Object.prototype, of the
\* names above, and the value read under such a name: a function.
ObjectPrototype == {"toString"}
Inherited == "function"
Handlers == {"onFirst", "onSecond"}

VARIABLES
  children,        \* children[p]: all child nodes of p, in document order
  pureChildren,    \* pureChildren[p]: the Element children of p
  parentNode,      \* parentNode[n]
  previousSibling, \* previousSibling[n]
  nextSibling,     \* nextSibling[n]
  docId,           \* docId[n]
  nodeMap,         \* the node table of the document: the registered nodeIds
  listener,        \* whether the document has a listener
  destroyed,       \* the nodes destroy() was called on
  cmds,            \* the commands the last call sent to the listener, in order
  native,          \* the refs the listener was told to add and not to remove since
  detached,        \* the nodes removed with preserved, neither attached nor destroyed since
  last,            \* the last call and what it found before it ran
  calls,           \* the calls made so far
  attr,            \* attr[e]: the attributes of Element e, key -> value
  style,           \* style[e]: its own style
  classStyle,      \* classStyle[e]: its style from classes
  event,           \* event[e]: its handlers, type -> handler
  sentEvent,       \* per event type, the last addEvent / removeEvent command sent
  mirror           \* per parent ref, the child refs of a listener that applied every command

vars == <<children, pureChildren, parentNode, previousSibling, nextSibling,
          docId, nodeMap, listener, destroyed, cmds, native, detached, last, calls,
          attr, style, classStyle, event, sentEvent, mirror>>

\* ---------------------------------------------------------------- lists
\* Array.prototype.indexOf: the first index (from 0) of x, -1 when absent.
indexOf(list, x) ==
  IF \E i \in 1 .. Len(list) : list[i] = x
  THEN (CHOOSE i \in 1 .. Len(list) :
          list[i] = x /\ \A j \in 1 .. (i - 1) : list[j] # x) - 1
  ELSE -1

\* list[i] with indexes from 0: undefined outside the list.
At(list, i) == IF i >= 0 /\ i < Len(list) THEN list[i + 1] ELSE Null

\* list.splice(i, 0, x)
SpliceIn(list, i, x) ==
  SubSeq(list, 1, i) \o <<x>> \o SubSeq(list, i + 1, Len(list))

\* list.splice(i, 1)
SpliceOut(list, i) ==
  SubSeq(list, 1, i) \o SubSeq(list, i + 2, Len(list))

Range(list) == {list[i] : i \in 1 .. Len(list)}

\* list.filter(keep)
RECURSIVE Filter(_, _)
Filter(list, keep) ==
  IF list = <<>> THEN <<>>
  ELSE (IF Head(list) \in keep THEN <<Head(list)>> ELSE <<>>) \o Filter(Tail(list), keep)

\* `n && (n.field = v)`: write a link of n unless n is falsy.
SetLink(f, n, v) == IF n = Null THEN f ELSE [f EXCEPT ![n] = v]

\* ---------------------------------------------------------------- heap
\* The objects a call reads and writes, as one value.
Heap ==
  [children |-> children, pureChildren |-> pureChildren, parentNode |-> parentNode,
   previousSibling |-> previousSibling, nextSibling |-> nextSibling,
   docId |-> docId, nodeMap |-> nodeMap, destroyed |-> destroyed,
   listener |-> listener, attr |-> attr, style |-> style,
   classStyle |-> classStyle, event |-> event]

\* operation.js linkParent(node, parent): node.parentNode = parent, and the
\* node joins the parent's document.
linkParent(h, node, parent) ==
  [h EXCEPT !.parentNode[node] = parent,
            !.docId[node] = IF h.docId[parent] # NoDoc THEN h.docId[parent] ELSE @]

\* operation.js getListener(docId): the listener of the document, if any.
getListener(h, d) == d # NoDoc /\ h.listener

\* element.js registerNode(docId, node): doc.nodeMap[node.nodeId] = node
registerNode(h, d, node) == [h EXCEPT !.nodeMap = @ \cup {node}]

\* operation.js nextElement(node): the nearest Element at or after node.
RECURSIVE nextElement(_, _)
nextElement(h, node) ==
  IF node = Null THEN Null
  ELSE IF nodeType(node) = ELEMENT THEN node
  ELSE nextElement(h, h.nextSibling[node])

\* operation.js previousElement(node): the nearest Element at or before node.
RECURSIVE previousElement(_, _)
previousElement(h, node) ==
  IF node = Null THEN Null
  ELSE IF nodeType(node) = ELEMENT THEN node
  ELSE previousElement(h, h.previousSibling[node])

\* The sibling links after target went into the list between before and after.
LinkIn(h, target, before, after) ==
  [h EXCEPT !.nextSibling = [SetLink(@, before, target) EXCEPT ![target] = after],
            !.previousSibling = [SetLink(@, after, target) EXCEPT ![target] = before]]

\* The sibling links after the entry between before and after left the list.
LinkOut(h, before, after) ==
  [h EXCEPT !.nextSibling = SetLink(@, before, after),
            !.previousSibling = SetLink(@, after, before)]

\* operation.js insertIndex(target, list, newIndex, changeSibling): the heap
\* after it, list being h[field][owner]. It returns newIndex.
insertIndex(h, owner, field, target, newIndex, changeSibling) ==
  LET list == h[field][owner]
      h1 == [h EXCEPT ![field][owner] = SpliceIn(list, newIndex, target)]
  IN IF changeSibling
     THEN LinkIn(h1, target, At(list, newIndex - 1), At(list, newIndex))
     ELSE h1

\* operation.js moveIndex: the index target has after moveIndex(target, list,
\* newIndex), newIndex being a position of the list before the move.
moveIndexAfter(list, target, newIndex) ==
  LET index == indexOf(list, target)
  IN IF index < newIndex THEN newIndex - 1 ELSE newIndex

\* operation.js moveIndex(target, list, newIndex, changeSibling): its result,
\* -1 when target is not in the list or stays where it is, else its new index.
moveIndexResult(list, target, newIndex) ==
  LET index == indexOf(list, target)
  IN IF index < 0 \/ index = moveIndexAfter(list, target, newIndex)
     THEN -1
     ELSE moveIndexAfter(list, target, newIndex)

\* operation.js moveIndex(target, list, newIndex, changeSibling): the heap after it.
moveIndex(h, owner, field, target, newIndex, changeSibling) ==
  LET list == h[field][owner]
      index == indexOf(list, target)
      out == SpliceOut(list, index)
      to == moveIndexAfter(list, target, newIndex)
      h1 == IF changeSibling
            THEN LinkOut(h, At(list, index - 1), At(list, index + 1))
            ELSE h
      h2 == [h1 EXCEPT ![field][owner] = SpliceIn(out, to, target)]
  IN IF index < 0 THEN h
     ELSE IF changeSibling
     THEN LinkIn(h2, target, At(out, to - 1), At(out, to))
     ELSE h2

\* operation.js removeIndex(target, list, changeSibling): the heap after it.
removeIndex(h, owner, field, target, changeSibling) ==
  LET list == h[field][owner]
      index == indexOf(list, target)
      h1 == IF changeSibling
            THEN LinkOut(h, At(list, index - 1), At(list, index + 1))
            ELSE h
  IN IF index < 0 THEN h
     ELSE [h1 EXCEPT ![field][owner] = SpliceOut(list, index)]

\* node.js destroy(): the node leaves the document and its node table (the
\* child nodes of the model have no children of their own to release).
destroy(h, node) ==
  [h EXCEPT !.docId[node] = NoDoc,
            !.nodeMap = IF h.docId[node] # NoDoc THEN @ \ {node} ELSE @,
            !.destroyed = @ \cup {node}]

\* ---------------------------------------------------------------- commands
addElement(node, parentRef, index) ==
  [cmd |-> "addElement", ref |-> ref(node), parentRef |-> parentRef, index |-> index]
moveElement(r, parentRef, index) ==
  [cmd |-> "moveElement", ref |-> r, parentRef |-> parentRef, index |-> index]
removeElement(r) ==
  [cmd |-> "removeElement", ref |-> r, parentRef |-> Null, index |-> Null]

\* What a call leaves: the heap and the commands it sent.
Result(h, sent) == [heap |-> h, cmds |-> sent]

\* ---------------------------------------------------------------- Element
\* appendChild, insertBefore, insertAfter: `node.parentNode && node.parentNode !== this`
otherParent(h, this, node) ==
  h.parentNode[node] # Null /\ h.parentNode[node] # this

\* Send without `if (listener)`.
SendAlways(h, this, sent) == sent

\* What the listener is sent, if there is one for this.docId.
Send(h, this, sent) == IF getListener(h, h.docId[this]) THEN sent ELSE <<>>

\* appendChild, insertBefore, insertAfter: `if (this.docId) registerNode(this.docId, node)`
register(h, this, node) ==
  IF h.docId[this] # NoDoc THEN registerNode(h, h.docId[this], node) ELSE h

\* appendNew with insertIndex(node, this.children, this.children.length) in
\* place of insertIndex(node, this.children, this.children.length, true).
appendNewUnlinked(h, this, node) ==
  LET h1 == linkParent(h, node, this)
      h2 == insertIndex(h1, this, "children", node, Len(h1.children[this]), FALSE)
      h3 == register(h2, this, node)
      h4 == insertIndex(h3, this, "pureChildren", node, Len(h3.pureChildren[this]), FALSE)
  IN IF nodeType(node) = ELEMENT
     THEN Result(h4, Send(h4, this, <<addElement(node, ref(this), -1)>>))
     ELSE Result(h3, <<>>)

\* appendChild(node), the branch of a node without parentNode
appendNew(h, this, node) ==
  LET h1 == linkParent(h, node, this)
      h2 == insertIndex(h1, this, "children", node, Len(h1.children[this]), TRUE)
      h3 == register(h2, this, node)
      h4 == insertIndex(h3, this, "pureChildren", node, Len(h3.pureChildren[this]), FALSE)
  IN IF nodeType(node) = ELEMENT
     THEN Result(h4, Send(h4, this, <<addElement(node, ref(this), -1)>>))
     ELSE Result(h3, <<>>)

\* appendMove sending the position it asked moveIndex for, this.pureChildren.length.
appendMoveRequested(h, this, node) ==
  LET h1 == moveIndex(h, this, "children", node, Len(h.children[this]), TRUE)
      pure == h1.pureChildren[this]
      index == moveIndexResult(pure, node, Len(pure))
      h2 == moveIndex(h1, this, "pureChildren", node, Len(pure), FALSE)
  IN IF nodeType(node) = ELEMENT
     THEN Result(h2, IF index >= 0
                     THEN Send(h2, this, <<moveElement(ref(node), ref(this), Len(pure))>>)
                     ELSE <<>>)
     ELSE Result(h1, <<>>)

\* appendMove with `if (listener)` in place of `if (listener && index >= 0)`.
appendMoveAlways(h, this, node) ==
  LET h1 == moveIndex(h, this, "children", node, Len(h.children[this]), TRUE)
      pure == h1.pureChildren[this]
      h2 == moveIndex(h1, this, "pureChildren", node, Len(pure), FALSE)
  IN IF nodeType(node) = ELEMENT
     THEN Result(h2, Send(h2, this, <<moveElement(ref(node), ref(this), Len(pure) - 1)>>))
     ELSE Result(h1, <<>>)

\* appendMove without the moveElement call.
appendMoveQuiet(h, this, node) ==
  LET h1 == moveIndex(h, this, "children", node, Len(h.children[this]), TRUE)
      h2 == moveIndex(h1, this, "pureChildren", node, Len(h1.pureChildren[this]), FALSE)
  IN IF nodeType(node) = ELEMENT THEN Result(h2, <<>>) ELSE Result(h1, <<>>)

\* appendChild(node), the branch of a node whose parentNode is this
appendMove(h, this, node) ==
  LET h1 == moveIndex(h, this, "children", node, Len(h.children[this]), TRUE)
      pure == h1.pureChildren[this]
      index == moveIndexResult(pure, node, Len(pure))
      h2 == moveIndex(h1, this, "pureChildren", node, Len(pure), FALSE)
  IN IF nodeType(node) = ELEMENT
     THEN Result(h2, IF index >= 0
                     THEN Send(h2, this, <<moveElement(ref(node), ref(this), index)>>)
                     ELSE <<>>)
     ELSE Result(h1, <<>>)

\* appendChild that takes every node whose parentNode is not this as a new child.
appendChildReparent(h, this, node) ==
  IF h.parentNode[node] # this THEN appendNew(h, this, node)
  ELSE appendMove(h, this, node)

\* Element.prototype.appendChild(node)
appendChild(h, this, node) ==
  IF otherParent(h, this, node) THEN Result(h, <<>>)
  ELSE IF h.parentNode[node] = Null THEN appendNew(h, this, node)
  ELSE appendMove(h, this, node)

\* insertBefore: `node === before || (node.nextSibling && node.nextSibling === before)`
inPlaceBefore(h, node, before) ==
  node = before \/ (h.nextSibling[node] # Null /\ h.nextSibling[node] = before)

\* pureIndexBefore without the look for the next Element: the end of pureChildren.
pureIndexBeforeEnd(h, this, before) == Len(h.pureChildren[this])

\* insertBefore: `pureBefore ? this.pureChildren.indexOf(pureBefore) : this.pureChildren.length`
pureIndexBefore(h, this, before) ==
  LET pureBefore == nextElement(h, before)
  IN IF pureBefore # Null
     THEN indexOf(h.pureChildren[this], pureBefore)
     ELSE Len(h.pureChildren[this])

\* insertBeforeNew without `if (node.nodeType === 1)`.
insertBeforeNewAny(h, this, node, before) ==
  LET h1 == linkParent(h, node, this)
      h2 == insertIndex(h1, this, "children", node, indexOf(h1.children[this], before), TRUE)
      h3 == register(h2, this, node)
      index == pureIndexBefore(h3, this, before)
      h4 == insertIndex(h3, this, "pureChildren", node, index, FALSE)
  IN Result(h4, Send(h4, this, <<addElement(node, ref(this), index)>>))

\* insertBefore(node, before), the branch of a node without parentNode
insertBeforeNew(h, this, node, before) ==
  LET h1 == linkParent(h, node, this)
      h2 == insertIndex(h1, this, "children", node, indexOf(h1.children[this], before), TRUE)
      h3 == register(h2, this, node)
      index == pureIndexBefore(h3, this, before)
      h4 == insertIndex(h3, this, "pureChildren", node, index, FALSE)
  IN IF nodeType(node) = ELEMENT
     THEN Result(h4, Send(h4, this, <<addElement(node, ref(this), index)>>))
     ELSE Result(h3, <<>>)

\* insertBefore(node, before), the branch of a node whose parentNode is this
insertBeforeMove(h, this, node, before) ==
  LET h1 == moveIndex(h, this, "children", node, indexOf(h.children[this], before), TRUE)
      to == pureIndexBefore(h1, this, before)
      index == moveIndexResult(h1.pureChildren[this], node, to)
      h2 == moveIndex(h1, this, "pureChildren", node, to, FALSE)
  IN IF nodeType(node) = ELEMENT
     THEN Result(h2, IF index >= 0
                     THEN Send(h2, this, <<moveElement(ref(node), ref(this), index)>>)
                     ELSE <<>>)
     ELSE Result(h1, <<>>)

\* Element.prototype.insertBefore(node, before)
insertBefore(h, this, node, before) ==
  IF otherParent(h, this, node) THEN Result(h, <<>>)
  ELSE IF inPlaceBefore(h, node, before) THEN Result(h, <<>>)
  ELSE IF h.parentNode[node] = Null THEN insertBeforeNew(h, this, node, before)
  ELSE insertBeforeMove(h, this, node, before)

\* insertAfter: `node === after || (node.previousSibling && node.previousSibling === after)`
inPlaceAfter(h, node, after) ==
  node = after \/ (h.previousSibling[node] # Null /\ h.previousSibling[node] = after)

\* insertAfter: `this.pureChildren.indexOf(previousElement(after)) + 1`
pureIndexAfter(h, this, after) ==
  indexOf(h.pureChildren[this], previousElement(h, after)) + 1

\* insertAfter(node, after), the branch of a node without parentNode
insertAfterNew(h, this, node, after) ==
  LET h1 == linkParent(h, node, this)
      h2 == insertIndex(h1, this, "children", node, indexOf(h1.children[this], after) + 1, TRUE)
      h3 == register(h2, this, node)
      index == pureIndexAfter(h3, this, after)
      h4 == insertIndex(h3, this, "pureChildren", node, index, FALSE)
  IN IF nodeType(node) = ELEMENT
     THEN Result(h4, Send(h4, this, <<addElement(node, ref(this), index)>>))
     ELSE Result(h3, <<>>)

\* insertAfter(node, after), the branch of a node whose parentNode is this
insertAfterMove(h, this, node, after) ==
  LET h1 == moveIndex(h, this, "children", node, indexOf(h.children[this], after) + 1, TRUE)
      to == pureIndexAfter(h1, this, after)
      index == moveIndexResult(h1.pureChildren[this], node, to)
      h2 == moveIndex(h1, this, "pureChildren", node, to, FALSE)
  IN IF nodeType(node) = ELEMENT
     THEN Result(h2, IF index >= 0
                     THEN Send(h2, this, <<moveElement(ref(node), ref(this), index)>>)
                     ELSE <<>>)
     ELSE Result(h1, <<>>)

\* Element.prototype.insertAfter(node, after)
insertAfter(h, this, node, after) ==
  IF otherParent(h, this, node) THEN Result(h, <<>>)
  ELSE IF inPlaceAfter(h, node, after) THEN Result(h, <<>>)
  ELSE IF h.parentNode[node] = Null THEN insertAfterNew(h, this, node, after)
  ELSE insertAfterMove(h, this, node, after)

\* removeChild: `if (node.parentNode)`
hasParent(h, this, node) == h.parentNode[node] # Null

\* removeChild(node, preserved), the body of `if (node.parentNode)`
removeLinked(h, this, node) ==
  LET h1 == removeIndex(h, this, "children", node, TRUE)
      h2 == removeIndex(h1, this, "pureChildren", node, FALSE)
  IN IF nodeType(node) = ELEMENT
     THEN Result(h2, Send(h2, this, <<removeElement(ref(node))>>))
     ELSE Result(h1, <<>>)

\* Element.prototype.removeChild(node, preserved)
removeChild(h, this, node, preserved) ==
  LET r == IF hasParent(h, this, node) THEN removeLinked(h, this, node) ELSE Result(h, <<>>)
  IN IF ~preserved THEN Result(destroy(r.heap, node), r.cmds) ELSE r

\* clearSent with this.children in place of this.pureChildren.
clearSentAll(h, this) ==
  [i \in 1 .. Len(h.children[this]) |-> removeElement(ref(h.children[this][i]))]

\* clear: `this.pureChildren.forEach(node => listener.removeElement(node.ref))`
clearSent(h, this) ==
  [i \in 1 .. Len(h.pureChildren[this]) |-> removeElement(ref(h.pureChildren[this][i]))]

\* clear: `this.children.forEach(node => node.destroy())`
RECURSIVE destroyAll(_, _)
destroyAll(h, list) ==
  IF list = <<>> THEN h ELSE destroyAll(destroy(h, Head(list)), Tail(list))

\* Element.prototype.clear()
clear(h, this) ==
  LET h1 == destroyAll(h, h.children[this])
  IN Result([h1 EXCEPT !.children[this] = <<>>, !.pureChildren[this] = <<>>],
            Send(h, this, clearSent(h, this)))

\* ---------------------------------------------------------------- attr, style, event
\* map[key] of a plain object: an own value, else what Object.prototype has under
\* the name, else undefined
Get(map, key) ==
  IF key \in DOMAIN map THEN map[key]
  ELSE IF key \in ObjectPrototype THEN Inherited
  ELSE NoArg

\* map[key] = value
Put(map, key, value) ==
  [k \in DOMAIN map \cup {key} |-> IF k = key THEN value ELSE map[k]]

\* delete map[key]
Delete(map, key) == [k \in DOMAIN map \ {key} |-> map[k]]

\* Object.assign(target, source)
Assign(target, source) ==
  [k \in DOMAIN target \cup DOMAIN source |->
     IF k \in DOMAIN source THEN source[k] ELSE target[k]]

\* A truthy `silent`: of "undefined", "false", "zero" (0) and "true", the last.
Truthy(silent) == silent = "true"

sendSetAttr(r, key, value) == [cmd |-> "setAttr", ref |-> r, key |-> key, value |-> value]
sendSetStyle(r, key, value) == [cmd |-> "setStyle", ref |-> r, key |-> key, value |-> value]
sendSetStyles(r, styles) == [cmd |-> "setStyles", ref |-> r, styles |-> styles]
sendAddEvent(r, type) == [cmd |-> "addEvent", ref |-> r, type |-> type]
sendRemoveEvent(r, type) == [cmd |-> "removeEvent", ref |-> r, type |-> type]

\* setAttr with `this.attr[key] === value` alone as the test to return.
setAttrNoForce(h, this, key, value, silent) ==
  IF Get(h.attr[this], key) = value THEN Result(h, <<>>)
  ELSE LET h1 == [h EXCEPT !.attr[this] = Put(@, key, value)]
       IN Result(h1, IF ~Truthy(silent)
                     THEN Send(h1, this, <<sendSetAttr(ref(this), key, value)>>)
                     ELSE <<>>)

\* Element.prototype.setAttr(key, value, silent)
setAttr(h, this, key, value, silent) ==
  IF Get(h.attr[this], key) = value /\ silent # "false" THEN Result(h, <<>>)
  ELSE LET h1 == [h EXCEPT !.attr[this] = Put(@, key, value)]
       IN Result(h1, IF ~Truthy(silent)
                     THEN Send(h1, this, <<sendSetAttr(ref(this), key, value)>>)
                     ELSE <<>>)

\* Element.prototype.setStyle(key, value, silent)
setStyle(h, this, key, value, silent) ==
  IF Get(h.style[this], key) = value /\ silent # "false" THEN Result(h, <<>>)
  ELSE LET h1 == [h EXCEPT !.style[this] = Put(@, key, value)]
       IN Result(h1, IF ~Truthy(silent)
                     THEN Send(h1, this, <<sendSetStyle(ref(this), key, value)>>)
                     ELSE <<>>)

\* Element.prototype.toStyle(): Object.assign({}, this.classStyle, this.style)
toStyle(h, this) == Assign(Assign(EmptyMap, h.classStyle[this]), h.style[this])

\* setClassStyle without the loop that resets the keys of this.classStyle.
setClassStyleNoReset(h, this, c) ==
  LET h1 == [h EXCEPT !.classStyle[this] = Assign(@, c)]
  IN Result(h1, Send(h1, this, <<sendSetStyles(ref(this), toStyle(h1, this))>>))

\* Element.prototype.setClassStyle(classStyle)
setClassStyle(h, this, c) ==
  LET reset == [k \in DOMAIN h.classStyle[this] |-> ""]
      h1 == [h EXCEPT !.classStyle[this] = Assign(reset, c)]
  IN Result(h1, Send(h1, this, <<sendSetStyles(ref(this), toStyle(h1, this))>>))

\* Element.prototype.addEvent(type, handler)
addEvent(h, this, type, handler) ==
  IF Get(h.event[this], type) = NoArg
  THEN LET h1 == [h EXCEPT !.event[this] = Put(@, type, handler)]
       IN Result(h1, Send(h1, this, <<sendAddEvent(ref(this), type)>>))
  ELSE Result(h, <<>>)

\* Element.prototype.removeEvent(type)
removeEvent(h, this, type) ==
  IF Get(h.event[this], type) # NoArg
  THEN LET h1 == [h EXCEPT !.event[this] = Delete(@, type)]
       IN Result(h1, Send(h1, this, <<sendRemoveEvent(ref(this), type)>>))
  ELSE Result(h, <<>>)

\* ---------------------------------------------------------------- the listener's view
\* The refs the listener holds after it was sent the commands.
RECURSIVE ApplyCmds(_, _)
ApplyCmds(refs, sent) ==
  IF sent = <<>> THEN refs
  ELSE ApplyCmds(IF Head(sent).cmd = "addElement" THEN refs \cup {Head(sent).ref}
                 ELSE IF Head(sent).cmd = "removeElement" THEN refs \ {Head(sent).ref}
                 ELSE refs,
                 Tail(sent))

\* The nodes that are an entry of some Element's children.
Attached(ch) == UNION {Range(ch[p]) : p \in Parents}

\* list without every entry equal to x
Without(list, x) == Filter(list, Range(list) \ {x})

\* The listener's children of each parent ref after one command: addElement
\* puts the ref at the index (-1: at the end), moveElement takes it from where
\* it is to the index, removeElement takes it away.
ApplyToMirror(m, c) ==
  LET gone == [p \in DOMAIN m |-> Without(m[p], c.ref)]
      held == \E p \in DOMAIN m : c.ref \in Range(m[p])
      put(mm) == LET list == mm[c.parentRef]
                     at == IF c.index < 0 \/ c.index > Len(list) THEN Len(list) ELSE c.index
                 IN [mm EXCEPT ![c.parentRef] = SpliceIn(list, at, c.ref)]
  IN IF c.cmd = "addElement" THEN put(m)
     ELSE IF c.cmd = "moveElement" THEN (IF held THEN put(gone) ELSE m)
     ELSE IF c.cmd = "removeElement" THEN gone
     ELSE m

RECURSIVE ApplyAllToMirror(_, _)
ApplyAllToMirror(m, sent) ==
  IF sent = <<>> THEN m ELSE ApplyAllToMirror(ApplyToMirror(m, Head(sent)), Tail(sent))

\* The last addEvent / removeEvent command of each type after the commands.
RECURSIVE ApplyEvents(_, _)
ApplyEvents(se, sent) ==
  IF sent = <<>> THEN se
  ELSE ApplyEvents(IF Head(sent).cmd \in {"addEvent", "removeEvent"}
                   THEN [se EXCEPT ![Head(sent).type] = Head(sent).cmd]
                   ELSE se,
                   Tail(sent))

\* ---------------------------------------------------------------- behaviours
NoCall ==
  [op |-> "none", this |-> Null, node |-> Null, ref |-> Null, preserved |-> FALSE,
   parentNode |-> Null, previousSibling |-> Null, nextSibling |-> Null,
   children |-> <<>>, pureChildren |-> <<>>, native |-> {}, detached |-> FALSE,
   key |-> NoArg, value |-> NoArg, silent |-> NoArg, arg |-> EmptyMap,
   attr |-> EmptyMap, style |-> EmptyMap, classStyle |-> EmptyMap,
   event |-> EmptyMap, sentEvent |-> [t \in EventTypes |-> "none"]]

\* The call op(node, r[, preserved]) on `this`, and what it found.
Call(op, this, node, r, preserved) ==
  [op |-> op, this |-> this, node |-> node, ref |-> r, preserved |-> preserved,
   parentNode |-> IF node = Null THEN Null ELSE parentNode[node],
   previousSibling |-> IF node = Null THEN Null ELSE previousSibling[node],
   nextSibling |-> IF node = Null THEN Null ELSE nextSibling[node],
   children |-> children[this], pureChildren |-> pureChildren[this],
   native |-> native, detached |-> node \in detached,
   key |-> NoArg, value |-> NoArg, silent |-> NoArg, arg |-> EmptyMap,
   attr |-> attr[this], style |-> style[this], classStyle |-> classStyle[this],
   event |-> event[this], sentEvent |-> sentEvent]

\* The call op(key, value, silent) or op(arg) on `this`, and what it found.
CallOn(op, this, key, value, silent, arg) ==
  [Call(op, this, Null, Null, FALSE) EXCEPT
     !.key = key, !.value = value, !.silent = silent, !.arg = arg]

\* The state after a call that left res.
Becomes(call, res) ==
  /\ children' = res.heap.children
  /\ pureChildren' = res.heap.pureChildren
  /\ parentNode' = res.heap.parentNode
  /\ previousSibling' = res.heap.previousSibling
  /\ nextSibling' = res.heap.nextSibling
  /\ docId' = res.heap.docId
  /\ nodeMap' = res.heap.nodeMap
  /\ destroyed' = res.heap.destroyed
  /\ cmds' = res.cmds
  /\ native' = ApplyCmds(native, res.cmds)
  /\ detached' = ((detached \cup
                     (IF call.op = "removeChild" /\ call.preserved
                         /\ call.node \in Range(children[call.this])
                      THEN {call.node} ELSE {}))
                  \ res.heap.destroyed) \ Attached(res.heap.children)
  /\ last' = call
  /\ calls < MaxCalls
  /\ calls' = calls + 1
  /\ attr' = res.heap.attr
  /\ style' = res.heap.style
  /\ classStyle' = res.heap.classStyle
  /\ event' = res.heap.event
  /\ sentEvent' = ApplyEvents(sentEvent, res.cmds)
  /\ mirror' = ApplyAllToMirror(mirror, res.cmds)
  /\ UNCHANGED listener

Init ==
  /\ children = [p \in Parents |-> <<>>]
  /\ pureChildren = [p \in Parents |-> <<>>]
  /\ parentNode = [n \in Nodes |-> Null]
  /\ previousSibling = [n \in Nodes |-> Null]
  /\ nextSibling = [n \in Nodes |-> Null]
  /\ docId = [n \in Nodes |-> IF n \in Parents THEN TheDoc ELSE NoDoc]
  /\ nodeMap = Parents
  /\ listener \in BOOLEAN
  /\ destroyed = {}
  /\ cmds = <<>>
  /\ native = {}
  /\ detached = {}
  /\ last = NoCall
  /\ calls = 0
  /\ attr = [p \in Parents |-> EmptyMap]
  /\ style = [p \in Parents |-> EmptyMap]
  /\ classStyle = [p \in Parents |-> EmptyMap]
  /\ event = [p \in Parents |-> EmptyMap]
  /\ sentEvent = [t \in EventTypes |-> "none"]
  /\ mirror = [p \in Parents |-> <<>>]

\* The nodes a caller still passes to a call: not the destroyed ones.
Live == Kids \ destroyed

AppendChild ==
  \E this \in Parents, node \in Live :
    Becomes(Call("appendChild", this, node, Null, FALSE), appendChild(Heap, this, node))

InsertBefore ==
  \E this \in Parents, node \in Live :
    \E before \in Range(children[this]) :
      Becomes(Call("insertBefore", this, node, before, FALSE),
              insertBefore(Heap, this, node, before))

InsertAfter ==
  \E this \in Parents, node \in Live :
    \E after \in Range(children[this]) :
      Becomes(Call("insertAfter", this, node, after, FALSE),
              insertAfter(Heap, this, node, after))

RemoveChild ==
  \E this \in Parents, node \in Live, preserved \in BOOLEAN :
    Becomes(Call("removeChild", this, node, Null, preserved),
            removeChild(Heap, this, node, preserved))

Clear ==
  \E this \in Parents :
    Becomes(Call("clear", this, Null, Null, FALSE), clear(Heap, this))

Next == AppendChild \/ InsertBefore \/ InsertAfter \/ RemoveChild \/ Clear

Spec == Init /\ [][Next]_vars

\* The maps given to setClassStyle.
ClassStyles == UNION {[D -> Values] : D \in SUBSET Keys}

SetAttr ==
  \E key \in Keys, value \in Values, silent \in Silents :
    Becomes(CallOn("setAttr", P, key, value, silent, EmptyMap),
            setAttr(Heap, P, key, value, silent))

SetStyle ==
  \E key \in Keys, value \in Values, silent \in Silents :
    Becomes(CallOn("setStyle", P, key, value, silent, EmptyMap),
            setStyle(Heap, P, key, value, silent))

SetClassStyle ==
  \E c \in ClassStyles :
    Becomes(CallOn("setClassStyle", P, NoArg, NoArg, NoArg, c),
            setClassStyle(Heap, P, c))

AddEvent ==
  \E type \in EventTypes, handler \in Handlers :
    Becomes(CallOn("addEvent", P, type, handler, NoArg, EmptyMap),
            addEvent(Heap, P, type, handler))

RemoveEvent ==
  \E type \in EventTypes :
    Becomes(CallOn("removeEvent", P, type, NoArg, NoArg, EmptyMap),
            removeEvent(Heap, P, type))

\* The calls that set attributes and own styles of one Element.
NextAttr == SetAttr \/ SetStyle

SpecAttr == Init /\ [][NextAttr]_vars

\* The calls that set own and class styles of one Element.
NextStyle == SetStyle \/ SetClassStyle

SpecStyle == Init /\ [][NextStyle]_vars

\* The calls that register and drop handlers of one Element.
NextEvent == AddEvent \/ RemoveEvent

SpecEvent == Init /\ [][NextEvent]_vars

\* ---------------------------------------------------------------- types
TypeOK ==
  /\ \A p \in Parents : Range(children[p]) \subseteq Kids
  /\ \A p \in Parents : Range(pureChildren[p]) \subseteq ElementKids
  /\ \A n \in Nodes : parentNode[n] \in Parents \cup {Null}
  /\ nodeMap \subseteq Nodes
  /\ native \subseteq {ref(n) : n \in ElementKids}

\* ---------------------------------------------------------------- scenario
\* The children of the spec's scenarios: two Elements and a node of another type.
A == Q + 1
T == Q + 2
B == Q + 3

Elements == {n \in Nodes : nodeType(n) = ELEMENT}
InsertOps == {"appendChild", "insertBefore", "insertAfter"}
TreeOps == InsertOps \cup {"removeChild"}

\* The refs the listener holds before the i-th command of the last call.
NativeBefore(i) == ApplyCmds(last.native, SubSeq(cmds, 1, i - 1))

\* ---------------------------------------------------------------- a listener bound late
\* The call of the record c, made on the heap h.
Perform(h, c) ==
  CASE c.op = "appendChild" -> appendChild(h, c.this, c.node)
    [] c.op = "insertBefore" -> insertBefore(h, c.this, c.node, c.ref)
    [] c.op = "insertAfter" -> insertAfter(h, c.this, c.node, c.ref)
    [] c.op = "removeChild" -> removeChild(h, c.this, c.node, c.preserved)
    [] c.op = "clear" -> clear(h, c.this)
    [] c.op = "setAttr" -> setAttr(h, c.this, c.key, c.value, c.silent)
    [] c.op = "setStyle" -> setStyle(h, c.this, c.key, c.value, c.silent)
    [] c.op = "setClassStyle" -> setClassStyle(h, c.this, c.arg)
    [] c.op = "addEvent" -> addEvent(h, c.this, c.key, c.value)
    [] c.op = "removeEvent" -> removeEvent(h, c.this, c.key)
    [] OTHER -> Result(h, <<>>)

\* The calls made on the Element P while its document has no listener, and
\* after it got one: two children, one key, one event type.
LateKids == {A, T}
LateSilents == {"undefined", "false"}
LateTreeCalls ==
  {Call("appendChild", P, node, Null, FALSE) : node \in LateKids \cap Live}
    \cup {Call(op, P, node, r, FALSE) :
            op \in {"insertBefore", "insertAfter"}, node \in LateKids \cap Live,
            r \in Range(children[P])}
    \cup {Call("removeChild", P, node, Null, preserved) :
            node \in LateKids \cap Live, preserved \in BOOLEAN}
    \cup {Call("clear", P, Null, Null, FALSE)}
LateMapCalls ==
  {CallOn(op, P, "color", value, silent, EmptyMap) :
     op \in {"setAttr", "setStyle"}, value \in Values, silent \in LateSilents}
    \cup {CallOn("setClassStyle", P, NoArg, NoArg, NoArg, c) :
            c \in {EmptyMap, [k \in {"color"} |-> "blue"]}}
    \cup {CallOn("addEvent", P, "click", "onFirst", NoArg, EmptyMap),
          CallOn("removeEvent", P, "click", NoArg, NoArg, EmptyMap)}

\* One of the calls above.
LateCall(ops, from) ==
  \E c \in from : c.op \in ops /\ Becomes(c, Perform(Heap, c))

\* The document of P and Q gets its listener; nothing is sent to it.
BindListener ==
  /\ ~listener
  /\ listener' = TRUE
  /\ last' = [NoCall EXCEPT !.op = "bind"]
  /\ cmds' = <<>>
  /\ calls < MaxCalls
  /\ calls' = calls + 1
  /\ UNCHANGED <<children, pureChildren, parentNode, previousSibling, nextSibling,
                 docId, nodeMap, destroyed, native, detached, attr, style,
                 classStyle, event, sentEvent, mirror>>

InitLate == Init /\ ~listener

NextLate ==
  \/ LateCall({"appendChild"}, LateTreeCalls)
  \/ LateCall({"insertBefore"}, LateTreeCalls)
  \/ LateCall({"insertAfter"}, LateTreeCalls)
  \/ LateCall({"removeChild"}, LateTreeCalls)
  \/ LateCall({"clear"}, LateTreeCalls)
  \/ LateCall({"setAttr"}, LateMapCalls)
  \/ LateCall({"setStyle"}, LateMapCalls)
  \/ LateCall({"setClassStyle"}, LateMapCalls)
  \/ LateCall({"addEvent"}, LateMapCalls)
  \/ LateCall({"removeEvent"}, LateMapCalls)
  \/ BindListener

SpecLate == InitLate /\ [][NextLate]_vars

\* ---------------------------------------------------------------- claims

\* C1: in every reachable state each Element's pureChildren is the subsequence
\* of its children with nodeType 1, in the same order.
C1_PureChildrenFilter ==
  \A p \in Parents : pureChildren[p] = Filter(children[p], Elements)

\* An Element was moved in front of another one, past a node of another type.
C1_Witness ==
  /\ last.op = "insertBefore" /\ last.node \in ElementKids
  /\ last.node \in Range(last.children)
  /\ Len(children[last.this]) = 3 /\ Len(pureChildren[last.this]) = 2
  /\ children[last.this] # last.children
  /\ pureChildren[last.this] # last.pureChildren

\* C2: parentNode[n] is p exactly when n is an entry of children[p], and unset
\* exactly when n is in no Element's children.
C2_ParentIffChild ==
  \A n \in Kids :
    /\ \A p \in Parents : parentNode[n] = p <=> n \in Range(children[p])
    /\ parentNode[n] = Null <=> n \notin Attached(children)

\* C3: a node removed with a truthy preserved is in no children and not
\* destroyed, and the next appendChild / insertBefore / insertAfter of it makes
\* it an entry of children of the Element called, and of its pureChildren with
\* one addElement command when it is an Element and there is a listener.
C3_PreservedReattach ==
  /\ (last.op = "removeChild" /\ last.preserved /\ last.node \in Range(last.children))
       => last.node \notin Attached(children) /\ last.node \notin destroyed
  /\ (last.op \in InsertOps /\ last.detached)
       => /\ last.node \in Range(children[last.this])
          /\ nodeType(last.node) = ELEMENT
               => /\ last.node \in Range(pureChildren[last.this])
                  /\ listener => /\ Len(cmds) = 1
                                 /\ cmds[1].cmd = "addElement"
                                 /\ cmds[1].ref = ref(last.node)

\* C4: with a listener, appendChild, insertBefore, insertAfter and removeChild
\* send exactly one command when the call changed this.pureChildren and none
\* when it did not.
C4_OneCommandIffPureChanged ==
  (listener /\ last.op \in TreeOps)
    => IF pureChildren[last.this] # last.pureChildren
       THEN Len(cmds) = 1 /\ cmds[1].cmd \in {"addElement", "moveElement", "removeElement"}
       ELSE cmds = <<>>

\* C5: with a listener from the start, addElement is sent for a ref the listener
\* does not hold, moveElement and removeElement for a ref it holds.
C5_CommandsMatchNative ==
  listener =>
    \A i \in 1 .. Len(cmds) :
      IF cmds[i].cmd = "addElement"
      THEN cmds[i].ref \notin NativeBefore(i)
      ELSE cmds[i].ref \in NativeBefore(i)

\* C6: removeChild(node, preserved) with a node that is not in this.children
\* sends no command and leaves this.children and this.pureChildren as they were.
C6_RemoveOnlyOwnChild ==
  (last.op = "removeChild" /\ last.node \notin Range(last.children))
    => /\ cmds = <<>>
       /\ children[last.this] = last.children
       /\ pureChildren[last.this] = last.pureChildren

\* C7: appendChild, insertBefore and insertAfter with a node whose parentNode
\* is another Element change no children, pureChildren, parent or sibling link
\* nor the node table, and send no command.
C7_ReparentRejected ==
  [][(last'.op \in InsertOps /\ last'.parentNode \notin {Null, last'.this})
       => /\ UNCHANGED <<children, pureChildren, parentNode, previousSibling,
                         nextSibling, nodeMap, docId>>
          /\ cmds' = <<>>]_vars

\* P was asked to take a child of Q, after Q's own children.
C7_Witness ==
  /\ last.op \in InsertOps /\ last.this = P /\ last.parentNode = Q
  /\ last.node \in Range(children[Q])
  /\ children[P] # <<>>

\* The call asks for the place the child of `this` already has.
InPlace(c) ==
  /\ c.node \in Range(c.children)
  /\ \/ c.op = "appendChild" /\ c.children[Len(c.children)] = c.node
     \/ c.op = "insertBefore" /\ c.ref \in {c.node, c.nextSibling}
     \/ c.op = "insertAfter" /\ c.ref \in {c.node, c.previousSibling}

\* C8: appendChild of the last child, insertBefore(node, node),
\* insertBefore(node, node.nextSibling), insertAfter(node, node) and
\* insertAfter(node, node.previousSibling) change no children, pureChildren or
\* sibling link and send no command.
C8_InPlaceNoOp ==
  [][InPlace(last')
       => /\ UNCHANGED <<children, pureChildren, previousSibling, nextSibling>>
          /\ cmds' = <<>>]_vars

\* The last Element child was appended again, with a listener, after other children.
C8_Witness ==
  /\ listener /\ InPlace(last) /\ last.op = "appendChild"
  /\ last.node \in ElementKids /\ Len(children[last.this]) >= 2

\* C9 as the spec states it: from children [A, T, B] and pureChildren [A, B],
\* appendChild(A) moves A to the end of children and sends no command.
C9_AppendFirstSendsNothing ==
  (listener /\ last.op = "appendChild" /\ last.this = P /\ last.node = A
     /\ last.children = <<A, T, B>> /\ last.pureChildren = <<A, B>>)
    => children[P] = <<T, B, A>> /\ cmds = <<>>

\* C9 amended: from children [A, T, B] and pureChildren [A, B], appendChild(A)
\* moves A to the end of children and of pureChildren, and sends one
\* moveElement command with A's ref and P's ref.
C9_AppendFirstSendsMove ==
  (listener /\ last.op = "appendChild" /\ last.this = P /\ last.node = A
     /\ last.children = <<A, T, B>> /\ last.pureChildren = <<A, B>>)
    => /\ children[P] = <<T, B, A>>
       /\ pureChildren[P] = <<B, A>>
       /\ Len(cmds) = 1
       /\ cmds[1].cmd = "moveElement"
       /\ cmds[1].ref = ref(A)
       /\ cmds[1].parentRef = ref(P)

\* appendChild(A) ran on children [A, T, B] with a listener.
C9_Witness ==
  /\ listener /\ last.op = "appendChild" /\ last.this = P /\ last.node = A
  /\ last.children = <<A, T, B>> /\ last.pureChildren = <<A, B>>

\* C10: appendChild, insertBefore, insertAfter and removeChild of a node whose
\* nodeType is not 1 send no command and change no pureChildren, and children
\* has the node at the place asked for (or no longer, after removeChild).
C10_NonElementSilent ==
  [][(last'.op \in TreeOps /\ last'.node \in OtherKids)
       => /\ cmds' = <<>>
          /\ UNCHANGED pureChildren
          /\ LET c == last'
                 now == children'[c.this]
                 mine == c.parentNode = Null \/ c.node \in Range(c.children)
             IN /\ (c.op = "appendChild" /\ mine) => now[Len(now)] = c.node
                /\ (c.op = "insertBefore" /\ mine /\ c.ref # c.node)
                     => indexOf(now, c.node) + 1 = indexOf(now, c.ref)
                /\ (c.op = "insertAfter" /\ mine /\ c.ref # c.node)
                     => indexOf(now, c.node) = indexOf(now, c.ref) + 1
                /\ (c.op \in InsertOps /\ mine)
                     => Range(now) = Range(c.children) \cup {c.node}
                /\ c.op = "removeChild"
                     => /\ c.node \notin Range(now)
                        /\ now = Filter(c.children, Kids \ {c.node})]_vars

\* A node of another type went between two Elements, with a listener.
C10_Witness ==
  /\ listener /\ last.op = "insertBefore" /\ last.node = T /\ last.parentNode = Null
  /\ children[last.this] = <<A, T, B>> /\ pureChildren[last.this] = <<A, B>>

\* C11: with a listener, setAttr(key, value, silent) sends one setAttr command
\* (ref, key, value) when silent is falsy and attr[key] differs from value or
\* silent is exactly false, and none otherwise; setStyle does the same with
\* the style map and the setStyle command.
C11_SetAttrSends ==
  (listener /\ last.op \in {"setAttr", "setStyle"})
    => LET old == IF last.op = "setAttr" THEN last.attr ELSE last.style
           sends == /\ last.silent \in {"undefined", "false", "zero"}
                    /\ Get(old, last.key) # last.value \/ last.silent = "false"
       IN cmds = IF sends
                 THEN <<[cmd |-> last.op, ref |-> ref(last.this),
                         key |-> last.key, value |-> last.value]>>
                 ELSE <<>>

\* setAttr was given the value the key already had, with silent false, and sent
\* a command; the call before it had set that value and sent one too.
C11_Witness ==
  /\ listener /\ last.op = "setAttr" /\ last.silent = "false"
  /\ Get(last.attr, last.key) = last.value
  /\ Len(cmds) = 1

\* C14: addEvent on a type that has a handler keeps the handler and sends
\* nothing, removeEvent on a type without handler sends nothing, and with a
\* listener the addEvent and removeEvent commands of a type alternate, the
\* first being addEvent.
C14_EventsAlternate ==
  /\ (last.op = "addEvent" /\ last.key \in DOMAIN last.event)
       => cmds = <<>> /\ event[last.this] = last.event
  /\ (last.op = "removeEvent" /\ last.key \notin DOMAIN last.event)
       => cmds = <<>> /\ event[last.this] = last.event
  /\ listener =>
       \A i \in 1 .. Len(cmds) :
         /\ cmds[i].cmd = "addEvent" => last.sentEvent[cmds[i].type] # "addEvent"
         /\ cmds[i].cmd = "removeEvent" => last.sentEvent[cmds[i].type] = "addEvent"

\* C15: with a listener every setClassStyle(c) sends one setStyles command; its
\* styles hold each key of the class style before the call, of c and of the own
\* style: the own style's value, else the value in c, else the empty string.
C15_SetClassStyleSendsMerged ==
  (listener /\ last.op = "setClassStyle")
    => /\ Len(cmds) = 1
       /\ cmds[1].cmd = "setStyles"
       /\ cmds[1].ref = ref(last.this)
       /\ DOMAIN cmds[1].styles
            = DOMAIN last.classStyle \cup DOMAIN last.arg \cup DOMAIN last.style
       /\ \A k \in DOMAIN cmds[1].styles :
            cmds[1].styles[k] = IF k \in DOMAIN last.style THEN last.style[k]
                                ELSE IF k \in DOMAIN last.arg THEN last.arg[k]
                                ELSE ""

\* setClassStyle left out a key an earlier call had given a value, and set a
\* key that the own style has with another value.
C15_Witness ==
  /\ listener /\ last.op = "setClassStyle"
  /\ \E k \in DOMAIN last.classStyle \ (DOMAIN last.arg \cup DOMAIN last.style) :
       last.classStyle[k] # ""
  /\ \E k \in DOMAIN last.arg \cap DOMAIN last.style : last.arg[k] # last.style[k]

\* C13: clear() leaves children and pureChildren empty and every former child
\* destroyed, and with a listener it sends one removeElement for each entry
\* pureChildren had, in that order, and nothing for the other children.
C13_ClearSendsPureChildren ==
  last.op = "clear"
    => /\ children[last.this] = <<>>
       /\ pureChildren[last.this] = <<>>
       /\ Range(last.children) \subseteq destroyed
       /\ listener
            => /\ cmds = [i \in 1 .. Len(last.pureChildren) |->
                            removeElement(ref(last.pureChildren[i]))]
               /\ Len(cmds) = Len(Filter(last.children, Elements))

\* clear() was called on an Element with two Element children and a child of
\* another type, and sent two commands.
C13_Witness ==
  /\ listener /\ last.op = "clear"
  /\ Len(last.children) > Len(last.pureChildren)
  /\ Len(cmds) > 1

\* The number of Elements among the first n entries of the list.
ElementsAmong(list, n) == Len(Filter(SubSeq(list, 1, n), Elements))

\* C16: with a listener, appendChild, insertBefore(node, before) and
\* insertAfter(node, after) of an Element that is in no children list send
\* addElement(node, this.ref, i): i is -1 for appendChild, else the index of
\* node in this.pureChildren after the call, which is the number of Elements
\* before `before`, or up to and including `after`, in children.
C16_AddElementIndex ==
  (/\ listener /\ last.op \in InsertOps /\ last.node \in ElementKids
   /\ last.parentNode = Null \/ last.detached)
    => LET i == indexOf(pureChildren[last.this], last.node)
           at == indexOf(last.children, last.ref)
       IN /\ cmds = <<addElement(last.node, ref(last.this),
                                 IF last.op = "appendChild" THEN -1 ELSE i)>>
          /\ last.op = "insertBefore" => i = ElementsAmong(last.children, at)
          /\ last.op = "insertAfter" => i = ElementsAmong(last.children, at + 1)

Refs(list) == [i \in 1 .. Len(list) |-> ref(list[i])]

\* C18: with a listener from the start, the listener's children of each parent
\* ref, built from the commands in the order sent, are the refs of that
\* Element's pureChildren in the same order.
C18_MirrorIsPureChildren ==
  listener => \A p \in Parents : mirror[ref(p)] = Refs(pureChildren[p])

\* C19: the sibling links of the children of every Element follow the order of
\* children, no node is twice in one children list, and none is in the children
\* of two Elements.
C19_SiblingsFollowChildren ==
  /\ \A p \in Parents :
       LET list == children[p]
       IN \A i \in 1 .. Len(list) :
            /\ nextSibling[list[i]] = (IF i < Len(list) THEN list[i + 1] ELSE Null)
            /\ previousSibling[list[i]] = (IF i > 1 THEN list[i - 1] ELSE Null)
            /\ \A j \in 1 .. Len(list) : list[i] = list[j] => i = j
  /\ \A p, q \in Parents : p # q => Range(children[p]) \cap Range(children[q]) = {}

\* A child was moved to between two other children.
C19_Witness ==
  /\ last.op \in {"insertBefore", "insertAfter"}
  /\ last.node \in Range(last.children)
  /\ children[last.this] # last.children
  /\ Len(children[last.this]) > 2
  /\ previousSibling[last.node] # Null /\ nextSibling[last.node] # Null

\* The ten operations of C12.
Operations ==
  TreeOps \cup {"clear", "setAttr", "setStyle", "setClassStyle", "addEvent", "removeEvent"}

\* The refs an operation's commands can name: of this, of the node, and of the
\* Elements this has as children.
OwnRefs(c) == {ref(c.this), ref(c.node)} \cup {ref(n) : n \in Range(c.pureChildren)}

\* C12: without a listener each of the ten operations leaves children,
\* pureChildren, attr, style, classStyle and event as the same call does with a
\* listener and sends nothing; binding the listener sends nothing, and a call
\* made after it sends only what that call sends on its own, about this, its
\* node or its current Element children.
C12_NoListenerSameChanges ==
  [][/\ (~listener /\ last'.op \in Operations)
          => LET with == Perform([Heap EXCEPT !.listener = TRUE], last').heap
             IN /\ cmds' = <<>>
                /\ children' = with.children
                /\ pureChildren' = with.pureChildren
                /\ attr' = with.attr
                /\ style' = with.style
                /\ classStyle' = with.classStyle
                /\ event' = with.event
     /\ last'.op = "bind" => cmds' = <<>> /\ native' = native
     /\ (listener /\ last'.op \in Operations)
          => /\ cmds' = Perform([Heap EXCEPT !.listener = TRUE], last').cmds
             /\ \A i \in 1 .. Len(cmds') : cmds'[i].ref \in OwnRefs(last')]_vars

\* A call made after the listener was bound sent a command, while an Element
\* added before that, for which nothing was sent, is still a child.
C12_Witness ==
  /\ listener /\ last.op \in Operations
  /\ cmds # <<>>
  /\ \E n \in Range(pureChildren[P]) : ref(n) \notin native /\ n # last.node

====
